---- MODULE Spec2Model ----
(***************************************************************************)
(* A model of src/video_clipper.py: the VideoClipper class (constructor,   *)
(* get_video_duration, format_time, create_segments, split_video) and      *)
(* main.                                                                   *)
(*                                                                         *)
(* Time.  ffprobe reports the duration as decimal text, which              *)
(* get_video_duration turns into a float.  The model keeps every float of  *)
(* the program as an integer number of ticks, TicksPerSecond ticks to the  *)
(* second; the only arithmetic the program does on them (adding the        *)
(* integer segment duration, min, <, //, %) is exact on such values.       *)
(*                                                                         *)
(* Text.  format_time renders "HH:MM:SS"; the model keeps the three        *)
(* integer fields the f-string prints, <<hours, minutes, secs>>.  An       *)
(* output file name is kept as its sequence of character codes; the        *)
(* directory self.output_dir, the same for every segment of a run, is left *)
(* out of output_path.  mkdir, print and the ffmpeg options do not act on  *)
(* the state modelled here.                                                *)
(***************************************************************************)
EXTENDS Integers, Sequences, FiniteSets

\* ------------------------------------------------------------------ bounds

\* Ticks per second of the fixed-point representation of a float.
TicksPerSecond == 2
\* Longest medium of the exhaustive grid of inputs, in seconds.
MaxSeconds == 4
\* Largest --duration of the exhaustive grid, in seconds.
MaxSegLen == 3
\* Iterations after which a planning loop that cannot end is cut off.
MaxDiverge == 3
\* How often the input file may be rewritten while the program runs.
MaxRewrites == 1
\* Seconds of the long medium that is planned one second per segment.
ManySeconds == 1000

\* ------------------------------------------------------------------ inputs

\* The stems (file names without suffix) of the input files: "v" and "ab".
Stems == { <<118>>, <<97, 98>> }

\* What ffprobe can print with exit status 0 for a medium of the grid: a
\* decimal number, here in ticks; a broken container can make it negative.
GridDurations == (0 - TicksPerSecond) .. (MaxSeconds * TicksPerSecond)

\* --duration as argparse (type=int) accepts it.
GridSegLens == (0 - 1) .. MaxSegLen

\* The ways one run of an external tool can end.
ProbeFailures == { "NotInvocable", "NonZeroExit", "NonNumeric" }

Entries == { "main", "split_video", "create_segments" }

\* ------------------------------------------------------------ pure helpers

Min(a, b) == IF a < b THEN a ELSE b

\* format_time: hours = int(seconds // 3600), minutes = int((seconds % 3600)
\* // 60), secs = int(seconds % 60), printed as "HH:MM:SS".  seconds is given
\* in ticks; // and % are Python's floor division and modulo.
format_time(seconds) ==
    << seconds \div (3600 * TicksPerSecond),
       (seconds % (3600 * TicksPerSecond)) \div (60 * TicksPerSecond),
       (seconds % (60 * TicksPerSecond)) \div TicksPerSecond >>

\* The decimal digits of a natural number, as character codes ("0" is 48).
RECURSIVE Digits(_)
Digits(n) == IF n < 10 THEN << 48 + n >> ELSE Append(Digits(n \div 10), 48 + (n % 10))

\* The format specification d for 03d: no padding.
Pad3Unpadded(n) == Digits(n)

\* The format specification 03d: at least three digits, padded with "0".
Pad3(n) ==
    LET d == Digits(n)
    IN  IF Len(d) >= 3 THEN d ELSE [k \in 1 .. (3 - Len(d)) |-> 48] \o d

\* The literal parts of the output file name: "_segment_" and ".mp4".
NameInfix == << 95, 115, 101, 103, 109, 101, 110, 116, 95 >>
NameSuffix == << 46, 109, 112, 52 >>

\* f"{stem}_segment_{segment_number:03d}.mp4"
OutputFilename(stem, n) == stem \o NameInfix \o Pad3(n) \o NameSuffix

\* The loop condition with <= for <.
LoopCondInclusive(start, total) == start <= total

\* The loop condition of create_segments.
LoopCond(start, total) == start < total

\* end_time = min(start_time + segment_duration, total_duration)
NextEnd(start, segdur, total) == Min(start + segdur * TicksPerSecond, total)

\* --------------------------------------------------------------- the state

VARIABLES
    entry,            \* which function the caller entered: main, or a method
    input_stem,       \* self.input_file.stem
    inputExists,      \* whether the input file exists
    segment_duration, \* args.duration / the segment_duration parameter
    dry_run,          \* args.dry_run / the dry_run parameter
    media,            \* what ffprobe would print now, in ticks
    rewrites,         \* how often the input file was rewritten so far
    pc,               \* the position of the program
    probeLog,         \* the results of the runs of ffprobe, in order
    sv_total,         \* total_duration of split_video
    printed,          \* the duration split_video printed
    cs_total,         \* total_duration of create_segments
    start_time,       \* start_time of create_segments
    segment_number,   \* segment_number of create_segments
    segments,         \* segments of create_segments, then of split_video
    iterations,       \* iterations of the planning loop so far
    planReturned,     \* whether create_segments has returned its list
    i,                \* the loop index of the extraction loop
    extractLog,       \* the runs of ffmpeg, in order: [seg, ok]
    files,            \* the output files on disk
    result,           \* how the run ended
    error             \* the exception or diagnostic that ended it

vars == << entry, input_stem, inputExists, segment_duration, dry_run, media,
           rewrites, pc, probeLog, sv_total, printed, cs_total, start_time,
           segment_number, segments, iterations, planReturned, i, extractLog,
           files, result, error >>

inputs == << entry, input_stem, inputExists, segment_duration, dry_run >>
planVars == << cs_total, start_time, segment_number, segments, iterations,
              planReturned >>
extractVars == << i, extractLog, files >>

\* The state before the first statement, for given inputs.
Start(e, st, ex, sd, dr, md) ==
    /\ entry = e
    /\ input_stem = st
    /\ inputExists = ex
    /\ segment_duration = sd
    /\ dry_run = dr
    /\ media = md
    /\ rewrites = 0
    /\ pc = IF e = "main" THEN "main" ELSE "construct"
    /\ probeLog = << >>
    /\ sv_total = 0
    /\ printed = << >>
    /\ cs_total = 0
    /\ start_time = 0
    /\ segment_number = 1
    /\ segments = << >>
    /\ iterations = 0
    /\ planReturned = FALSE
    /\ i = 0
    /\ extractLog = << >>
    /\ files = {}
    /\ result = "none"
    /\ error = "none"

\* Every input of the grid.
InitGrid ==
    \E e \in Entries, st \in Stems, ex \in BOOLEAN, dr \in BOOLEAN,
       sd \in GridSegLens, md \in GridDurations :
        Start(e, st, ex, sd, dr, md)

\* A long medium cut in hour and half-hour segments.
InitHours ==
    \E e \in Entries, dr \in BOOLEAN, sd \in {1800, 3600},
       md \in { 7300 * TicksPerSecond, 3600 * TicksPerSecond + 1 } :
        Start(e, <<118>>, TRUE, sd, dr, md)

\* A long medium planned one second per segment.
InitMany ==
    Start("create_segments", <<118>>, TRUE, 1, FALSE, ManySeconds * TicksPerSecond)

Init == InitGrid \/ InitHours \/ InitMany

\* ------------------------------------------------------------- how it ends

\* An exception leaves the method; main catches every Exception, prints it
\* and exits with status 1.
Raise(kind) ==
    /\ pc' = "done"
    /\ error' = kind
    /\ result' = IF entry = "main" THEN "exit1" ELSE "raised"

\* split_video returns; main then falls off its end: status 0.
Return ==
    /\ pc' = "done"
    /\ result' = IF entry = "main" THEN "exit0" ELSE "returned"

\* ------------------------------------------------------------------ main

\* main, lines 147-150: a --duration <= 0 is refused with status 1.
MainReject ==
    /\ pc = "main"
    /\ segment_duration <= 0
    /\ pc' = "done"
    /\ error' = "DurationNotPositive"
    /\ result' = "exit1"
    /\ UNCHANGED << inputs, media, rewrites, probeLog, sv_total, printed,
                    planVars, extractVars >>

MainAccept ==
    /\ pc = "main"
    /\ segment_duration > 0
    /\ pc' = "construct"
    /\ UNCHANGED << inputs, media, rewrites, probeLog, sv_total, printed,
                    planVars, extractVars, result, error >>

\* ------------------------------------------------------------ __init__

ConstructOk ==
    /\ pc = "construct"
    /\ inputExists
    /\ pc' = IF entry = "create_segments" THEN "cs_probe" ELSE "sv_probe"
    /\ UNCHANGED << inputs, media, rewrites, probeLog, sv_total, printed,
                    planVars, extractVars, result, error >>

ConstructFail ==
    /\ pc = "construct"
    /\ ~inputExists
    /\ Raise("FileNotFoundError")
    /\ UNCHANGED << inputs, media, rewrites, probeLog, sv_total, printed,
                    planVars, extractVars >>

\* ------------------------------------------------- get_video_duration

\* split_video, lines 81-82: ffprobe prints a number; it is kept and printed.
SvProbeOk ==
    /\ pc = "sv_probe"
    /\ probeLog' = Append(probeLog, [ok |-> TRUE, value |-> media])
    /\ sv_total' = media
    /\ printed' = format_time(media)
    /\ pc' = "cs_probe"
    /\ UNCHANGED << inputs, media, rewrites, planVars, extractVars, result, error >>

\* ffprobe cannot be started (FileNotFoundError), exits with a non-zero
\* status or prints no number (RuntimeError, lines 33-36).
SvProbeFail ==
    /\ pc = "sv_probe"
    /\ \E f \in ProbeFailures :
        /\ probeLog' = Append(probeLog, [ok |-> FALSE, value |-> f])
        /\ Raise(IF f = "NotInvocable" THEN "FileNotFoundError" ELSE "RuntimeError")
    /\ UNCHANGED << inputs, media, rewrites, sv_total, printed, planVars, extractVars >>

\* create_segments, lines 50-54: ffprobe runs (again, when split_video called).
CsProbeOk ==
    /\ pc = "cs_probe"
    /\ probeLog' = Append(probeLog, [ok |-> TRUE, value |-> media])
    /\ cs_total' = media
    /\ segments' = << >>
    /\ start_time' = 0
    /\ segment_number' = 1
    /\ pc' = "cs_loop"
    /\ UNCHANGED << inputs, media, rewrites, sv_total, printed, iterations,
                    planReturned, extractVars, result, error >>

CsProbeFail ==
    /\ pc = "cs_probe"
    /\ \E f \in ProbeFailures :
        /\ probeLog' = Append(probeLog, [ok |-> FALSE, value |-> f])
        /\ Raise(IF f = "NotInvocable" THEN "FileNotFoundError" ELSE "RuntimeError")
    /\ UNCHANGED << inputs, media, rewrites, sv_total, printed, planVars, extractVars >>

\* The input file is rewritten by someone else while the program runs.
InputRewritten ==
    /\ pc \in { "sv_probe", "cs_probe" }
    /\ rewrites < MaxRewrites
    /\ media \in GridDurations
    /\ \E md \in GridDurations \ { media } : media' = md
    /\ rewrites' = rewrites + 1
    /\ UNCHANGED << inputs, pc, probeLog, sv_total, printed, planVars,
                    extractVars, result, error >>

\* ---------------------------------------------------- create_segments

\* One iteration of the loop, lines 56-68.
PlanStep ==
    /\ pc = "cs_loop"
    /\ LoopCond(start_time, cs_total)
    /\ segment_duration > 0 \/ iterations < MaxDiverge
    /\ LET end_time == NextEnd(start_time, segment_duration, cs_total)
       IN  /\ segments' = Append(segments,
                  [ start_str |-> format_time(start_time),
                    end_str |-> format_time(end_time),
                    output_path |-> OutputFilename(input_stem, segment_number) ])
           /\ start_time' = end_time
    /\ segment_number' = segment_number + 1
    /\ iterations' = iterations + 1
    /\ UNCHANGED << inputs, media, rewrites, pc, probeLog, sv_total, printed,
                    cs_total, planReturned, extractVars, result, error >>

\* The loop ends and create_segments returns the list, line 70.
PlanReturn ==
    /\ pc = "cs_loop"
    /\ ~LoopCond(start_time, cs_total)
    /\ pc' = IF entry = "create_segments" THEN "done" ELSE "sv_branch"
    /\ result' = IF entry = "create_segments" THEN "returned" ELSE result
    /\ planReturned' = TRUE
    /\ UNCHANGED << inputs, media, rewrites, probeLog, sv_total, printed,
                    cs_total, start_time, segment_number, segments, iterations,
                    extractVars, error >>

\* -------------------------------------------------------- split_video

\* Lines 87-91: the dry run prints the plan and returns.
DryRun ==
    /\ pc = "sv_branch"
    /\ dry_run
    /\ Return
    /\ UNCHANGED << inputs, media, rewrites, probeLog, sv_total, printed,
                    planVars, extractVars, error >>

\* Line 95 reached also in a dry run: the return of line 91 left out.
StartProcessingAlways ==
    /\ pc = "sv_branch"
    /\ i' = 1
    /\ pc' = "sv_extract"
    /\ UNCHANGED << inputs, media, rewrites, probeLog, sv_total, printed,
                    planVars, extractLog, files, result, error >>

\* Line 95: the extraction loop starts at the first segment.
StartProcessing ==
    /\ pc = "sv_branch"
    /\ ~dry_run
    /\ i' = 1
    /\ pc' = "sv_extract"
    /\ UNCHANGED << inputs, media, rewrites, probeLog, sv_total, printed,
                    planVars, extractLog, files, result, error >>

\* Lines 98-109: ffmpeg writes segment i and exits with status 0.
ExtractOk ==
    /\ pc = "sv_extract"
    /\ i <= Len(segments)
    /\ extractLog' = Append(extractLog, [seg |-> i, ok |-> TRUE])
    /\ files' = files \cup { segments[i].output_path }
    /\ i' = i + 1
    /\ UNCHANGED << inputs, media, rewrites, pc, probeLog, sv_total, printed,
                    planVars, result, error >>

\* Lines 110-113 with continue for return: the loop goes on to the next
\* segment after a failure.
ExtractFailContinue ==
    /\ pc = "sv_extract"
    /\ i <= Len(segments)
    /\ extractLog' = Append(extractLog, [seg |-> i, ok |-> FALSE])
    /\ \E partial \in BOOLEAN :
        files' = IF partial THEN files \cup { segments[i].output_path } ELSE files
    /\ i' = i + 1
    /\ UNCHANGED << inputs, media, rewrites, pc, probeLog, sv_total, printed,
                    planVars, result, error >>

\* Lines 110-113: ffmpeg exits with a non-zero status, with or without a
\* partial output file; the error is printed and split_video returns.
ExtractFail ==
    /\ pc = "sv_extract"
    /\ i <= Len(segments)
    /\ extractLog' = Append(extractLog, [seg |-> i, ok |-> FALSE])
    /\ \E partial \in BOOLEAN :
        files' = IF partial THEN files \cup { segments[i].output_path } ELSE files
    /\ Return
    /\ UNCHANGED << inputs, media, rewrites, probeLog, sv_total, printed,
                    planVars, i, error >>

\* Line 108: ffmpeg cannot be started; FileNotFoundError is not caught by
\* the except clause of line 110 and leaves split_video.
ExtractNotInvocable ==
    /\ pc = "sv_extract"
    /\ i <= Len(segments)
    /\ extractLog' = Append(extractLog, [seg |-> i, ok |-> FALSE])
    /\ Raise("FileNotFoundError")
    /\ UNCHANGED << inputs, media, rewrites, probeLog, sv_total, printed,
                    planVars, i, files >>

\* Line 115: every segment was extracted.
AllDone ==
    /\ pc = "sv_extract"
    /\ i > Len(segments)
    /\ Return
    /\ UNCHANGED << inputs, media, rewrites, probeLog, sv_total, printed,
                    planVars, extractVars, error >>

Next ==
    \/ MainReject
    \/ MainAccept
    \/ ConstructOk
    \/ ConstructFail
    \/ SvProbeOk
    \/ SvProbeFail
    \/ CsProbeOk
    \/ CsProbeFail
    \/ InputRewritten
    \/ PlanStep
    \/ PlanReturn
    \/ DryRun
    \/ StartProcessing
    \/ ExtractOk
    \/ ExtractFail
    \/ ExtractNotInvocable
    \/ AllDone

Spec == Init /\ [][Next]_vars

\* ---------------------------------------------------- reading the plan

\* The seconds an "HH:MM:SS" text of the plan stands for (what ffmpeg reads
\* from -ss and -to).
SecondsOf(ts) == ts[1] * 3600 + ts[2] * 60 + ts[3]

\* The length of segment k of the plan, in seconds.
SegLen(k) == SecondsOf(segments[k].end_str) - SecondsOf(segments[k].start_str)

RECURSIVE SumLen(_)
SumLen(n) == IF n = 0 THEN 0 ELSE SumLen(n - 1) + SegLen(n)

\* ceil(a / b) for b > 0
CeilDiv(a, b) == (a + b - 1) \div b

\* One segment_duration, in ticks.
SegTicks == segment_duration * TicksPerSecond

\* create_segments has returned a plan for a positive duration and a
\* positive segment length.
PlannedPositive == planReturned /\ cs_total > 0 /\ segment_duration > 0

\* ---------------------------------------------------------------- claims

\* C1: for every totalDuration > 0 and segmentLength > 0 the plan returned by
\* create_segments exactly tiles [0, totalDuration]: the first segment starts
\* at 0, each segment ends where the next one starts, the last segment ends
\* at totalDuration, and the lengths sum to totalDuration.
C1_PlanTilesDuration ==
    PlannedPositive =>
        /\ Len(segments) >= 1
        /\ SecondsOf(segments[1].start_str) = 0
        /\ \A k \in 1 .. (Len(segments) - 1) :
               segments[k].end_str = segments[k + 1].start_str
        /\ SecondsOf(segments[Len(segments)].end_str) * TicksPerSecond = cs_total
        /\ SumLen(Len(segments)) * TicksPerSecond = cs_total

\* C9: for every totalDuration d > 0 and positive segmentLength L the planning
\* loop runs at most ceil(d / L) iterations, after which its condition is
\* false, and the returned plan has exactly ceil(d / L) segments; for every
\* d <= 0 the returned plan is empty.
C9_PlanLength ==
    /\ (pc = "cs_loop" /\ cs_total > 0 /\ segment_duration > 0) =>
           /\ iterations <= CeilDiv(cs_total, SegTicks)
           /\ iterations = CeilDiv(cs_total, SegTicks) => start_time >= cs_total
    /\ PlannedPositive =>
           /\ Len(segments) = CeilDiv(cs_total, SegTicks)
           /\ iterations = CeilDiv(cs_total, SegTicks)
    /\ (planReturned /\ cs_total <= 0) => segments = << >>

\* C9, witness: a returned plan of at least three segments whose last one is
\* partial.
C9_Witness ==
    /\ PlannedPositive
    /\ Len(segments) >= 3
    /\ cs_total % SegTicks # 0

\* C10: for every totalDuration d > 0 and segmentLength L > 0 the final
\* segment of the plan ends at d, its length is d mod L when that is not zero
\* and L otherwise, and it is neither empty nor longer than L.
C10_FinalSegment ==
    PlannedPositive =>
        LET n == Len(segments)
        IN  /\ n >= 1
            /\ SecondsOf(segments[n].end_str) * TicksPerSecond = cs_total
            /\ SegLen(n) * TicksPerSecond =
                   (IF cs_total % SegTicks # 0 THEN cs_total % SegTicks ELSE SegTicks)
            /\ SegLen(n) > 0
            /\ SegLen(n) <= segment_duration

\* ------------------------------------------------- reading the two logs

\* Extraction k was attempted and ffmpeg exited with status 0.
Extracted(k) == k <= Len(extractLog) /\ extractLog[k].ok

\* Some extraction failed.
SomeExtractionFailed == \E k \in 1 .. Len(extractLog) : ~extractLog[k].ok

\* A probe that did not give a non-negative number.
ProbeFailed(r) == ~r.ok \/ r.value < 0

\* C2: a run of main ends with status 0 only when every planned segment was
\* extracted (a dry run plans without extracting), and with a non-zero status
\* whenever a validation fails or the extraction of a segment fails.
C2_ExitStatus ==
    (pc = "done" /\ entry = "main") =>
        /\ (result = "exit0" /\ ~dry_run) =>
               \A k \in 1 .. Len(segments) : Extracted(k)
        /\ (segment_duration <= 0 \/ ~inputExists \/ SomeExtractionFailed) =>
               result = "exit1"

\* C3: extractions are attempted one at a time in plan order; after a failed
\* extraction of segment k no further extraction is attempted (none of a
\* later segment, none of k again), and the output files of the segments
\* extracted before are still on disk.
C3_FailFast ==
    /\ Len(extractLog) <= Len(segments)
    /\ \A k \in 1 .. Len(extractLog) :
           /\ extractLog[k].seg = k
           /\ ~extractLog[k].ok => (k = Len(extractLog) /\ pc = "done")
           /\ extractLog[k].ok => segments[k].output_path \in files

\* C3, witness: segment k >= 2 failed, segments after k were planned, and
\* the run is over.
C3_Witness ==
    /\ pc = "done"
    /\ Len(extractLog) >= 2
    /\ ~extractLog[Len(extractLog)].ok
    /\ Len(segments) > Len(extractLog)
    /\ \A k \in 1 .. (Len(extractLog) - 1) : segments[k].output_path \in files

\* C4: a segmentLength <= 0 is refused before planning and before any
\* external call, whichever function the caller entered: no probe runs, no
\* extraction runs, no segment is planned with it.
C4_NonPositiveRejected ==
    segment_duration <= 0 =>
        /\ probeLog = << >>
        /\ extractLog = << >>
        /\ iterations = 0
        /\ ~planReturned

\* C5: within one run of split_video (here: with a positive segment length,
\* on a medium of positive duration) the duration probe runs exactly once, and
\* the duration reported to the user is the one the plan is computed from.
C5_ProbedOnce ==
    (planReturned /\ entry # "create_segments" /\ segment_duration > 0 /\ sv_total > 0) =>
        /\ Len(probeLog) = 1
        /\ sv_total = cs_total
        /\ printed = format_time(cs_total)

\* C6: in a run of main, a probe that cannot be started, exits with a
\* non-zero status, or prints something that is not a non-negative number
\* ends the run with an error: no probe runs after it, no extraction runs,
\* and main exits with a non-zero status.
C6_ProbeFailureFatal ==
    entry = "main" =>
        \A k \in 1 .. Len(probeLog) :
            ProbeFailed(probeLog[k]) =>
                /\ k = Len(probeLog)
                /\ pc = "done"
                /\ error \in { "RuntimeError", "FileNotFoundError" }
                /\ extractLog = << >>
                /\ result = "exit1"

\* C8: in a dry run the extraction tool is never run and no output file is
\* written; split_video returns after the plan.
C8_DryRunExtractsNothing ==
    dry_run =>
        /\ extractLog = << >>
        /\ files = {}
        /\ pc # "sv_extract"
        /\ (planReturned /\ pc = "done" /\ entry = "main") => result = "exit0"

\* C8, witness: a dry run of main that planned at least two segments is over.
C8_Witness ==
    /\ dry_run
    /\ entry = "main"
    /\ pc = "done"
    /\ planReturned
    /\ Len(segments) >= 2
    /\ result = "exit0"

\* ------------------------------------------------------ reading names

\* Whether text a sorts strictly before text b, comparing character codes
\* from position k on.
RECURSIVE LexLessFrom(_, _, _)
LexLessFrom(a, b, k) ==
    IF k > Len(a) THEN k <= Len(b)
    ELSE IF k > Len(b) THEN FALSE
    ELSE IF a[k] # b[k] THEN a[k] < b[k]
    ELSE LexLessFrom(a, b, k + 1)

LexLess(a, b) == LexLessFrom(a, b, 1)

\* The digits of the output name of segment k: what stands between
\* "<stem>_segment_" and ".mp4".
NameDigits(k) ==
    LET name == segments[k].output_path
    IN  SubSeq(name, Len(input_stem) + Len(NameInfix) + 1, Len(name) - Len(NameSuffix))

\* The number a sequence of digit characters stands for.
RECURSIVE DigitsValue(_)
DigitsValue(d) ==
    IF d = << >> THEN 0
    ELSE 10 * DigitsValue(SubSeq(d, 1, Len(d) - 1)) + (d[Len(d)] - 48)

\* The output name of segment k is the stem, "_segment_", the number k in
\* at least three digits, and ".mp4".
NameCarriesNumber(k) ==
    LET name == segments[k].output_path
        d == NameDigits(k)
    IN  /\ SubSeq(name, 1, Len(input_stem)) = input_stem
        /\ SubSeq(name, Len(input_stem) + 1, Len(input_stem) + Len(NameInfix)) = NameInfix
        /\ SubSeq(name, Len(name) - Len(NameSuffix) + 1, Len(name)) = NameSuffix
        /\ Len(d) >= 3
        /\ \A x \in 1 .. Len(d) : d[x] \in 48 .. 57
        /\ DigitsValue(d) = k

\* C7 as stated: in a plan of N segments segment k carries the number k, and
\* for every N and all i < j <= N the output name of segment i sorts strictly
\* before the output name of segment j.
C7_NamesSortForEveryLength ==
    planReturned =>
        /\ \A k \in 1 .. Len(segments) : NameCarriesNumber(k)
        /\ \A x \in 1 .. Len(segments) : \A y \in (x + 1) .. Len(segments) :
               LexLess(segments[x].output_path, segments[y].output_path)

\* C7, amended: in a plan of N segments segment k carries the number k, and
\* for all i < j <= N with j <= 999 the output name of segment i sorts
\* strictly before the output name of segment j.
C7_NamesSortUpTo999 ==
    planReturned =>
        /\ \A k \in 1 .. Len(segments) : NameCarriesNumber(k)
        /\ \A x \in 1 .. Len(segments) : \A y \in (x + 1) .. Min(Len(segments), 999) :
               LexLess(segments[x].output_path, segments[y].output_path)

\* C7, witness: a returned plan of at least 999 segments, and so names with
\* one, two and three significant digits.
C7_Witness == planReturned /\ Len(segments) >= 999

====
